---- MODULE Spec2Model ----
(***************************************************************************)
(* Dictate: the menu-bar speech-to-text controller of dictate_app.py and   *)
(* the recognition script transcribe.py.                                   *)
(*                                                                         *)
(* The UI context runs the handlers on_toggle, on_quit and the _reset_ui   *)
(* callback one at a time; each is one action.  A worker thread runs       *)
(* _transcribe; each of its external calls is one action, so that worker   *)
(* steps interleave with the UI handlers.                                  *)
(***************************************************************************)
EXTENDS Integers, Sequences, FiniteSets, TLC

VARIABLES
    is_recording,     \* DictateApp.is_recording
    is_transcribing,  \* DictateApp.is_transcribing
    recording_proc,   \* DictateApp.recording_proc: "None" or "Popen"
    title,            \* the menu-bar icon
    toggle_title,     \* the title of the toggle menu item
    rec,              \* the capture process: "none", "running", "terminated"
    recording_file,   \* the file at RECORDING_PATH: [exists, frames]
    workers,          \* the worker threads started so far, in order
    main_queue,       \* callbacks posted with callAfter and not yet run
    clipboard,        \* the clipboard contents
    history_log,      \* the lines of HISTORY_LOG
    app_running,      \* FALSE once rumps.quit_application() was called
    notifications     \* the texts posted with rumps.notification

vars == << is_recording, is_transcribing, recording_proc, title, toggle_title,
           rec, recording_file, workers, main_queue, clipboard, history_log,
           app_running, notifications >>

-----------------------------------------------------------------------------
(* Bounds of the model *)

\* how many recordings may be started in one run
MaxSessions == 2
\* how many 16-bit frames a recording holds at most
MaxFrames == 1
\* how many 16-bit frames the energy gate is tried on at most
MaxGateFrames == 3
\* how many characters the recognition engine returns at most
MaxText == 2

-----------------------------------------------------------------------------
(* Program constants *)

ICON_IDLE == "ICON_IDLE"
ICON_RECORDING == "ICON_RECORDING"
ICON_TRANSCRIBING == "ICON_TRANSCRIBING"

\* transcribe.py: "if rms < 200"
Threshold == 200

\* the 16-bit words a recording is made of
Words == {199, 200}
\* the 16-bit words the energy gate is tried on (65336 and 45536 are -200 and
\* -20000 as signed shorts)
GateWords == {0, 199, 200, 201, 1000, 65336, 45536}
\* the characters of a transcript
Chars == {" ", "a"}
Whitespace == {" ", "\n"}

SeqsUpTo(S, n) == UNION {[1..k -> S] : k \in 0..n}

Buffers == SeqsUpTo(Words, MaxFrames)
GateBuffers == SeqsUpTo(GateWords, MaxGateFrames)
RawTexts == SeqsUpTo(Chars, MaxText)

NoFile == [exists |-> FALSE, frames |-> << >>]
WavFile(frames) == [exists |-> TRUE, frames |-> frames]

\* the contents of the clipboard before the first transcription
OldClipboard == <<"o">>

-----------------------------------------------------------------------------
(* transcribe.py *)

\* struct.unpack("<h"): a 16-bit word read as a signed short
Short(w) == IF w >= 32768 THEN w - 65536 ELSE w

Unpack(frames) == [i \in 1..Len(frames) |-> Short(frames[i])]

RECURSIVE SumSq(_)
SumSq(samples) ==
    IF samples = << >> THEN 0
    ELSE Head(samples) * Head(samples) + SumSq(Tail(samples))

\* the largest r in lo..hi with r * r <= n
RECURSIVE SqrtIn(_, _, _)
SqrtIn(n, lo, hi) ==
    IF lo >= hi THEN lo
    ELSE LET mid == (lo + hi + 1) \div 2
         IN  IF mid * mid <= n THEN SqrtIn(n, mid, hi) ELSE SqrtIn(n, lo, mid - 1)

\* math.sqrt, rounded down to a whole number
Sqrt(n) == SqrtIn(n, 0, 32768)

\* rms = math.sqrt(sum(s * s for s in samples) / len(samples)) if samples else 0
\* (rounded down: rms < 200 has the same truth value as for the exact root)
Rms(samples) ==
    IF samples = << >> THEN 0 ELSE Sqrt(SumSq(samples) \div Len(samples))

IsSilenceLe(samples) == Rms(samples) <= Threshold

\* "if rms < 200: return"
IsSilence(samples) == Rms(samples) < Threshold

RECURSIVE LStrip(_)
LStrip(s) ==
    IF s # << >> /\ Head(s) \in Whitespace THEN LStrip(Tail(s)) ELSE s

RECURSIVE RStrip(_)
RStrip(s) ==
    IF s # << >> /\ s[Len(s)] \in Whitespace
    THEN RStrip(SubSeq(s, 1, Len(s) - 1)) ELSE s

\* str.strip()
Strip(s) == RStrip(LStrip(s))

\* text = result["text"].strip(); if text: print(text)
PrintText(raw) ==
    IF Strip(raw) # << >> THEN Strip(raw) \o <<"\n">> ELSE << >>

\* transcribe.py without the energy check
TranscribeMainNoGate(frames, importOk, engineOk, raw) ==
    IF ~importOk
    THEN [returncode |-> 1, stdout |-> << >>, gate |-> "none", engine |-> FALSE]
    ELSE IF ~engineOk
    THEN [returncode |-> 1, stdout |-> << >>, gate |-> "speech", engine |-> TRUE]
    ELSE [returncode |-> 0, stdout |-> PrintText(raw), gate |-> "speech",
          engine |-> TRUE]

(* One run of transcribe.py on the frames of the recording.  importOk: the   *)
(* import of mlx_whisper succeeds and the file opens as a wave file;        *)
(* engineOk: mlx_whisper.transcribe returns raw rather than raising.        *)
TranscribeMain(frames, importOk, engineOk, raw) ==
    IF ~importOk
    THEN [returncode |-> 1, stdout |-> << >>, gate |-> "none", engine |-> FALSE]
    ELSE IF IsSilence(Unpack(frames))
    THEN [returncode |-> 0, stdout |-> << >>, gate |-> "silence", engine |-> FALSE]
    ELSE IF ~engineOk
    THEN [returncode |-> 1, stdout |-> << >>, gate |-> "speech", engine |-> TRUE]
    ELSE [returncode |-> 0, stdout |-> PrintText(raw), gate |-> "speech",
          engine |-> TRUE]

-----------------------------------------------------------------------------
(* DictateApp *)

(* A thread just started on _transcribe.  pc: the statement it is at;         *)
(* returncode (-1: no result yet), text, raised: its locals and the         *)
(* exception it caught; audio, gate, engine, raw: what its run of          *)
(* transcribe.py was given, decided, and got from the engine; effects: the  *)
(* delivery effects it has attempted, in order, a failed one marked so.     *)
NewWorker ==
    [pc |-> "check", audio |-> << >>, gate |-> "none", engine |-> FALSE,
     raw |-> << >>, returncode |-> -1, text |-> << >>, raised |-> "none",
     effects |-> << >>]

Init ==
    /\ is_recording = FALSE
    /\ is_transcribing = FALSE
    /\ recording_proc = "None"
    /\ title = ICON_IDLE
    /\ toggle_title = "Start Recording"
    /\ rec = "none"
    /\ recording_file \in {NoFile, WavFile(<< >>)}
    /\ workers = << >>
    /\ main_queue = 0
    /\ clipboard = OldClipboard
    /\ history_log = << >>
    /\ app_running = TRUE
    /\ notifications = {}

UIUnchanged == UNCHANGED << is_recording, is_transcribing, recording_proc, title,
                            toggle_title >>

\* _start_recording that marks the recording as started before it tries Popen
StartRecordingFlagFirst(popen_ok) ==
    /\ recording_file' = NoFile
    /\ is_recording' = TRUE
    /\ title' = ICON_RECORDING
    /\ toggle_title' = "Stop Recording"
    /\ IF popen_ok
       THEN /\ Len(workers) < MaxSessions
            /\ recording_proc' = "Popen"
            /\ rec' = "running"
            /\ UNCHANGED notifications
       ELSE /\ notifications' = notifications \cup {"Recording failed"}
            /\ UNCHANGED << recording_proc, rec >>
    /\ UNCHANGED << is_transcribing, workers, main_queue, clipboard, history_log,
                    app_running >>

\* _start_recording; popen_ok: subprocess.Popen starts the capture process
StartRecording(popen_ok) ==
    /\ recording_file' = NoFile
    /\ IF popen_ok
       THEN /\ Len(workers) < MaxSessions
            /\ recording_proc' = "Popen"
            /\ rec' = "running"
            /\ is_recording' = TRUE
            /\ title' = ICON_RECORDING
            /\ toggle_title' = "Stop Recording"
            /\ UNCHANGED notifications
       ELSE /\ notifications' = notifications \cup {"Recording failed"}
            /\ UNCHANGED << recording_proc, rec, is_recording, title,
                            toggle_title >>
    /\ UNCHANGED << is_transcribing, workers, main_queue, clipboard, history_log,
                    app_running >>

\* _stop_recording that leaves is_recording set
StopRecordingKeepsFlag ==
    IF recording_proc = "None"
    THEN UNCHANGED vars
    ELSE /\ title' = ICON_TRANSCRIBING
         /\ toggle_title' = "Transcribing..."
         /\ rec' = "terminated"
         /\ recording_proc' = "None"
         /\ is_transcribing' = TRUE
         /\ workers' = Append(workers, NewWorker)
         /\ UNCHANGED << is_recording, recording_file, main_queue, clipboard,
                         history_log, app_running, notifications >>

\* _stop_recording that starts the worker without setting is_transcribing
StopRecordingNoHandOff ==
    IF recording_proc = "None"
    THEN UNCHANGED vars
    ELSE /\ is_recording' = FALSE
         /\ title' = ICON_TRANSCRIBING
         /\ toggle_title' = "Transcribing..."
         /\ rec' = "terminated"
         /\ recording_proc' = "None"
         /\ workers' = Append(workers, NewWorker)
         /\ UNCHANGED << is_transcribing, recording_file, main_queue, clipboard,
                         history_log, app_running, notifications >>

\* _stop_recording without "if not self.recording_proc: return"
StopRecordingNoGuard ==
    /\ is_recording' = FALSE
    /\ title' = ICON_TRANSCRIBING
    /\ toggle_title' = "Transcribing..."
    /\ rec' = "terminated"
    /\ recording_proc' = "None"
    /\ is_transcribing' = TRUE
    /\ workers' = Append(workers, NewWorker)
    /\ UNCHANGED << recording_file, main_queue, clipboard, history_log,
                    app_running, notifications >>

\* _stop_recording that keeps the handle of the reaped capture process
StopRecordingKeepsHandle ==
    IF recording_proc = "None"
    THEN UNCHANGED vars
    ELSE /\ is_recording' = FALSE
         /\ title' = ICON_TRANSCRIBING
         /\ toggle_title' = "Transcribing..."
         /\ rec' = "terminated"
         /\ is_transcribing' = TRUE
         /\ workers' = Append(workers, NewWorker)
         /\ UNCHANGED << recording_proc, recording_file, main_queue, clipboard,
                         history_log, app_running, notifications >>

\* _stop_recording
StopRecording ==
    IF recording_proc = "None"
    THEN UNCHANGED vars
    ELSE /\ is_recording' = FALSE
         /\ title' = ICON_TRANSCRIBING
         /\ toggle_title' = "Transcribing..."
         /\ rec' = "terminated"
         /\ recording_proc' = "None"
         /\ is_transcribing' = TRUE
         /\ workers' = Append(workers, NewWorker)
         /\ UNCHANGED << recording_file, main_queue, clipboard, history_log,
                         app_running, notifications >>

\* on_toggle without "if self.is_transcribing: return"
OnToggleNoGuard ==
    /\ app_running
    /\ \E popen_ok \in BOOLEAN :
          IF is_recording THEN StopRecording ELSE StartRecording(popen_ok)

\* on_toggle, from the menu item or the global hotkey
OnToggle ==
    /\ app_running
    /\ \E popen_ok \in BOOLEAN :
          IF is_transcribing THEN UNCHANGED vars
          ELSE IF is_recording THEN StopRecording
          ELSE StartRecording(popen_ok)

\* on_quit that exits without stopping the capture process
OnQuitNoSignal ==
    /\ app_running
    /\ app_running' = FALSE
    /\ UNCHANGED << is_recording, is_transcribing, recording_proc, title,
                    toggle_title, rec, recording_file, workers, main_queue,
                    clipboard, history_log, notifications >>

\* on_quit
OnQuit ==
    /\ app_running
    /\ rec' = IF recording_proc # "None" THEN "terminated" ELSE rec
    /\ app_running' = FALSE
    /\ UNCHANGED << is_recording, is_transcribing, recording_proc, title,
                    toggle_title, recording_file, workers, main_queue, clipboard,
                    history_log, notifications >>

\* _reset_ui, run by the UI context for a callback posted with callAfter
ResetUI ==
    /\ app_running
    /\ main_queue > 0
    /\ main_queue' = main_queue - 1
    /\ title' = ICON_IDLE
    /\ toggle_title' = "Start Recording"
    /\ is_transcribing' = FALSE
    /\ UNCHANGED << is_recording, recording_proc, rec, recording_file, workers,
                    clipboard, history_log, app_running, notifications >>

\* the capture process writes the recording to RECORDING_PATH
CaptureWrite ==
    /\ rec = "running"
    /\ ~recording_file.exists
    /\ \E frames \in Buffers : recording_file' = WavFile(frames)
    /\ UNCHANGED << is_recording, is_transcribing, recording_proc, title,
                    toggle_title, rec, workers, main_queue, clipboard, history_log,
                    app_running, notifications >>

-----------------------------------------------------------------------------
(* _transcribe, on a worker thread *)

SetWorker(i, w) == workers' = [workers EXCEPT ![i] = w]

\* a worker that clears is_transcribing itself, as soon as it starts
WCheckClearsFlag(i) ==
    /\ app_running
    /\ workers[i].pc = "check"
    /\ SetWorker(i, [workers[i] EXCEPT
                       !.pc = IF recording_file.exists THEN "run" ELSE "unlink"])
    /\ is_transcribing' = FALSE
    /\ UNCHANGED << is_recording, recording_proc, title, toggle_title, rec,
                    recording_file, main_queue, clipboard, history_log,
                    app_running, notifications >>

\* a missing-file return that schedules the reset itself, before the finally
\* clause schedules it again
WCheckMissingSchedulesReset(i) ==
    /\ app_running
    /\ workers[i].pc = "check"
    /\ SetWorker(i, [workers[i] EXCEPT
                       !.pc = IF recording_file.exists THEN "run" ELSE "unlink"])
    /\ main_queue' = IF recording_file.exists THEN main_queue ELSE main_queue + 1
    /\ UIUnchanged
    /\ UNCHANGED << rec, recording_file, clipboard, history_log, app_running,
                    notifications >>

\* "if not os.path.exists(RECORDING_PATH): log.error(...); return"
WCheck(i) ==
    /\ app_running
    /\ workers[i].pc = "check"
    /\ SetWorker(i, [workers[i] EXCEPT
                       !.pc = IF recording_file.exists THEN "run" ELSE "unlink"])
    /\ UIUnchanged
    /\ UNCHANGED << rec, recording_file, main_queue, clipboard, history_log,
                    app_running, notifications >>

\* subprocess.run whose failures leave the try statement past its cleanup
AfterRunSkipsCleanup(w, frames, fate, importOk, engineOk, raw) ==
    LET r == TranscribeMain(frames, importOk, engineOk, raw)
        text == Strip(r.stdout)
    IN  CASE fate = "oserror" ->
               [w EXCEPT !.pc = "unlink", !.audio = frames, !.raised = "Exception"]
          [] fate = "timeout_early" ->
               [w EXCEPT !.pc = "callAfter", !.audio = frames,
                         !.raised = "TimeoutExpired"]
          [] fate = "timeout_engine" ->
               [w EXCEPT !.pc = "callAfter", !.audio = frames, !.gate = r.gate,
                         !.engine = r.engine, !.raised = "TimeoutExpired"]
          [] OTHER ->
               [w EXCEPT !.pc = IF r.returncode # 0 THEN "callAfter"
                                ELSE IF text = << >> THEN "unlink" ELSE "pbcopy",
                         !.audio = frames, !.gate = r.gate, !.engine = r.engine,
                         !.raw = IF r.engine /\ r.returncode = 0 THEN raw ELSE << >>,
                         !.returncode = r.returncode,
                         !.text = IF r.returncode = 0 THEN text ELSE << >>]

(* What the worker holds after subprocess.run of transcribe.py.  fate:        *)
(* "oserror" (the interpreter cannot be started), "timeout_early" (120 s     *)
(* pass before the script reaches the engine), "timeout_engine" (120 s pass  *)
(* inside the engine) or "exit" (the script exits in time).                  *)
AfterRun(w, frames, fate, importOk, engineOk, raw) ==
    LET r == TranscribeMain(frames, importOk, engineOk, raw)
        text == Strip(r.stdout)
    IN  CASE fate = "oserror" ->
               [w EXCEPT !.pc = "unlink", !.audio = frames, !.raised = "Exception"]
          [] fate = "timeout_early" ->
               [w EXCEPT !.pc = "unlink", !.audio = frames,
                         !.raised = "TimeoutExpired"]
          [] fate = "timeout_engine" ->
               [w EXCEPT !.pc = "unlink", !.audio = frames, !.gate = r.gate,
                         !.engine = r.engine, !.raised = "TimeoutExpired"]
          [] OTHER ->
               [w EXCEPT !.pc = IF r.returncode # 0 \/ text = << >>
                                THEN "unlink" ELSE "pbcopy",
                         !.audio = frames, !.gate = r.gate, !.engine = r.engine,
                         !.raw = IF r.engine /\ r.returncode = 0 THEN raw ELSE << >>,
                         !.returncode = r.returncode,
                         !.text = IF r.returncode = 0 THEN text ELSE << >>]

Fates == {"oserror", "timeout_early", "timeout_engine", "exit"}

\* subprocess.run([VENV_PYTHON, TRANSCRIBE_SCRIPT, RECORDING_PATH], timeout=120)
\* up to "if not text: return"
WRun(i) ==
    /\ app_running
    /\ workers[i].pc = "run"
    /\ \E fate \in Fates, importOk \in BOOLEAN, engineOk \in BOOLEAN,
          raw \in RawTexts :
          /\ importOk \/ recording_file.exists
          /\ fate = "timeout_engine" =>
                TranscribeMain(recording_file.frames, importOk, engineOk, raw).engine
          /\ SetWorker(i, AfterRun(workers[i], recording_file.frames, fate,
                                   importOk /\ recording_file.exists, engineOk, raw))
    /\ UIUnchanged
    /\ UNCHANGED << rec, recording_file, main_queue, clipboard, history_log,
                    app_running, notifications >>

\* subprocess.run(["/usr/bin/pbcopy"], input=text.encode(), check=True)
WPbcopy(i) ==
    /\ app_running
    /\ workers[i].pc = "pbcopy"
    /\ \E ok \in BOOLEAN :
          IF ok
          THEN /\ clipboard' = workers[i].text
               /\ SetWorker(i, [workers[i] EXCEPT
                       !.pc = "history", !.effects = Append(@, "clipboard")])
          ELSE /\ clipboard' = clipboard
               /\ SetWorker(i, [workers[i] EXCEPT
                       !.pc = "unlink", !.raised = "Exception",
                       !.effects = Append(@, "clipboard_failed")])
    /\ UIUnchanged
    /\ UNCHANGED << rec, recording_file, main_queue, history_log, app_running,
                    notifications >>

\* a history line that leaves the text out
HistoryLineNoText(text) == <<"[", "ts", "]", " ">>

\* f.write(f"[{ts}] {text}\n"): the line, without its terminator
HistoryLine(text) == <<"[", "ts", "]", " ">> \o text

\* with open(HISTORY_LOG, "a") as f: f.write(...)
WHistory(i) ==
    /\ app_running
    /\ workers[i].pc = "history"
    /\ \E ok \in BOOLEAN :
          IF ok
          THEN /\ history_log' = Append(history_log, HistoryLine(workers[i].text))
               /\ SetWorker(i, [workers[i] EXCEPT
                       !.pc = "paste", !.effects = Append(@, "history")])
          ELSE /\ history_log' = history_log
               /\ SetWorker(i, [workers[i] EXCEPT
                       !.pc = "unlink", !.raised = "Exception",
                       !.effects = Append(@, "history_failed")])
    /\ UIUnchanged
    /\ UNCHANGED << rec, recording_file, main_queue, clipboard, app_running,
                    notifications >>

\* subprocess.run(["osascript", ...], check=False); outcome: the keystroke is
\* "sent", osascript exits non-zero ("failed"), or it cannot be started
WPaste(i) ==
    /\ app_running
    /\ workers[i].pc = "paste"
    /\ \E outcome \in {"sent", "failed", "oserror"} :
          SetWorker(i, [workers[i] EXCEPT
              !.pc = "unlink",
              !.effects = CASE outcome = "sent" -> Append(@, "paste")
                            [] outcome = "failed" -> Append(@, "paste_failed")
                            [] OTHER -> Append(@, "paste_oserror"),
              !.raised = IF outcome = "oserror" THEN "Exception" ELSE @])
    /\ UIUnchanged
    /\ UNCHANGED << rec, recording_file, main_queue, clipboard, history_log,
                    app_running, notifications >>

\* a cleanup step that leaves the recording in place
WUnlinkKeepsFile(i) ==
    /\ app_running
    /\ workers[i].pc = "unlink"
    /\ SetWorker(i, [workers[i] EXCEPT !.pc = "callAfter"])
    /\ UIUnchanged
    /\ UNCHANGED << rec, recording_file, main_queue, clipboard, history_log,
                    app_running, notifications >>

\* a cleanup that schedules the reset first and deletes the recording later
WUnlinkAfterSchedule(i) ==
    /\ app_running
    /\ workers[i].pc = "unlink"
    /\ IF is_transcribing /\ main_queue = 0
       THEN /\ main_queue' = main_queue + 1
            /\ UNCHANGED << recording_file, workers >>
       ELSE /\ recording_file' = NoFile
            /\ SetWorker(i, [workers[i] EXCEPT !.pc = "done"])
            /\ UNCHANGED main_queue
    /\ UIUnchanged
    /\ UNCHANGED << rec, clipboard, history_log, app_running, notifications >>

\* finally: if os.path.exists(RECORDING_PATH): os.unlink(RECORDING_PATH)
WUnlink(i) ==
    /\ app_running
    /\ workers[i].pc = "unlink"
    /\ recording_file' = NoFile
    /\ SetWorker(i, [workers[i] EXCEPT !.pc = "callAfter"])
    /\ UIUnchanged
    /\ UNCHANGED << rec, main_queue, clipboard, history_log, app_running,
                    notifications >>

\* a thread that ends without posting the reset callback
WCallAfterLost(i) ==
    /\ app_running
    /\ workers[i].pc = "callAfter"
    /\ SetWorker(i, [workers[i] EXCEPT !.pc = "done"])
    /\ UIUnchanged
    /\ UNCHANGED << rec, recording_file, main_queue, clipboard, history_log,
                    app_running, notifications >>

\* a thread that calls _reset_ui itself instead of posting it
WCallAfterDirectReset(i) ==
    /\ app_running
    /\ workers[i].pc = "callAfter"
    /\ title' = ICON_IDLE
    /\ toggle_title' = "Start Recording"
    /\ is_transcribing' = FALSE
    /\ SetWorker(i, [workers[i] EXCEPT !.pc = "done"])
    /\ UNCHANGED << is_recording, recording_proc, rec, recording_file, main_queue,
                    clipboard, history_log, app_running, notifications >>

\* finally: callAfter(self._reset_ui); the thread ends
WCallAfter(i) ==
    /\ app_running
    /\ workers[i].pc = "callAfter"
    /\ main_queue' = main_queue + 1
    /\ SetWorker(i, [workers[i] EXCEPT !.pc = "done"])
    /\ UIUnchanged
    /\ UNCHANGED << rec, recording_file, clipboard, history_log, app_running,
                    notifications >>

WorkerStep(i) ==
    \/ WCheck(i)
    \/ WRun(i)
    \/ WPbcopy(i)
    \/ WHistory(i)
    \/ WPaste(i)
    \/ WUnlink(i)
    \/ WCallAfter(i)

Worker == \E i \in DOMAIN workers : WorkerStep(i)

-----------------------------------------------------------------------------

Next ==
    \/ OnToggle
    \/ OnQuit
    \/ ResetUI
    \/ CaptureWrite
    \/ Worker

Spec == Init /\ [][Next]_vars

(* The energy gate on its own: a worker is about to run transcribe.py on a   *)
(* recording of any of the GateBuffers.                                     *)
GateInit ==
    /\ is_recording = FALSE
    /\ is_transcribing = TRUE
    /\ recording_proc = "None"
    /\ title = ICON_TRANSCRIBING
    /\ toggle_title = "Transcribing..."
    /\ rec = "terminated"
    /\ recording_file \in {WavFile(frames) : frames \in GateBuffers}
    /\ workers = << [NewWorker EXCEPT !.pc = "run"] >>
    /\ main_queue = 0
    /\ clipboard = OldClipboard
    /\ history_log = << >>
    /\ app_running = TRUE
    /\ notifications = {}

GateNext == \E i \in DOMAIN workers : WRun(i)

GateSpec == GateInit /\ [][GateNext]_vars

(* The application with _stop_recording also called on its own, at any time, *)
(* whether or not a capture handle exists.                                  *)
StopCall == app_running /\ Len(workers) < MaxSessions /\ StopRecording

StopNext == Next \/ StopCall

StopSpec == Init /\ [][StopNext]_vars

\* the worker thread and the UI context's run loop are scheduled fairly
FairSpec == Spec /\ WF_vars(Worker) /\ WF_vars(ResetUI)

-----------------------------------------------------------------------------
(* The controller's state, read from the two flags *)

StateOf(recording, transcribing) ==
    CASE recording /\ transcribing -> "Recording+Transcribing"
      [] recording -> "Recording"
      [] transcribing -> "Transcribing"
      [] OTHER -> "Idle"

ControllerState == StateOf(is_recording, is_transcribing)

\* worker i is the latest one, it has ended, its reset callback has run, and
\* no later recording has been started
SessionOver(i) ==
    /\ i = Len(workers)
    /\ workers[i].pc = "done"
    /\ main_queue = 0
    /\ recording_proc = "None"

-----------------------------------------------------------------------------
(* C1: a toggle received while the controller is Transcribing, the window    *)
(* between the end of the worker and the reset callback included, changes   *)
(* nothing: the state flags, the capture handle, the capture process, the   *)
(* workers and the temporary audio file stay as they are.                   *)
C1_ToggleWhileTranscribingNoOp ==
    [][(OnToggle /\ is_transcribing) =>
          UNCHANGED << is_recording, is_transcribing, recording_proc, rec, workers,
                       recording_file, title, toggle_title >>]_vars

\* Transcribing, the worker has ended, the reset callback has not run yet
C1_Witness ==
    /\ app_running
    /\ is_transcribing
    /\ main_queue > 0
    /\ workers # << >>
    /\ workers[Len(workers)].pc = "done"

(* C2: is_recording and is_transcribing are never both true, whatever the    *)
(* sequence of toggles, quit, worker steps and reset callbacks.             *)
C2_OneStateAtATime == ~(is_recording /\ is_transcribing)

\* a second session is Transcribing when the application is quit
C2_Witness ==
    /\ ~app_running
    /\ is_transcribing
    /\ Len(workers) = MaxSessions

(* C3: the controller's state changes only from Idle to Recording, from      *)
(* Recording to Transcribing and from Transcribing to Idle.                 *)
C3_OnlyLoopTransitions ==
    [][ControllerState' # ControllerState =>
          << ControllerState, ControllerState' >> \in
              { << "Idle", "Recording" >>, << "Recording", "Transcribing" >>,
                << "Transcribing", "Idle" >> }]_vars

\* Recording again after a whole Idle, Recording, Transcribing, Idle loop
C3_Witness ==
    /\ ControllerState = "Recording"
    /\ Len(workers) = 1
    /\ workers[1].pc = "done"
    /\ main_queue = 0

(* C4 as stated: whenever the controller is Transcribing it eventually is    *)
(* Idle again.                                                              *)
C4_TranscribingLeadsToIdle ==
    (ControllerState = "Transcribing") ~> (ControllerState = "Idle")

(* C4: whenever the controller is Transcribing it eventually is Idle again,  *)
(* whatever happens in the worker, unless the application is quit first.    *)
C4_TranscribingLeadsToIdleUnlessQuit ==
    (ControllerState = "Transcribing") ~>
        (ControllerState = "Idle" \/ ~app_running)

\* Idle again after a session whose worker caught an exception
C4_Witness ==
    /\ app_running
    /\ ControllerState = "Idle"
    /\ \E i \in DOMAIN workers :
          SessionOver(i) /\ workers[i].raised = "Exception"

(* C5: in every state where the controller is back in Idle after a session,  *)
(* no file is at the recording path.                                        *)
C5_NoFileAfterSession ==
    (ControllerState = "Idle" /\ workers # << >>) => ~recording_file.exists

\* Idle after a session that had a recording to transcribe
C5_Witness ==
    /\ ControllerState = "Idle"
    /\ \E i \in DOMAIN workers :
          SessionOver(i) /\ workers[i].audio # << >> /\ workers[i].returncode = 0

(* C6: when the application has exited after a quit received while Recording *)
(* or Transcribing, no file is at the recording path.                       *)
C6_NoFileAfterQuit ==
    (~app_running /\ ControllerState \in {"Recording", "Transcribing"}) =>
        ~recording_file.exists

-----------------------------------------------------------------------------
(* What the claims call silence, the delivery effects of a session, and the  *)
(* clipboard and history log that the sessions before it leave behind       *)

SilentAudio(frames) ==
    \/ frames = << >>
    \/ SumSq(Unpack(frames)) < Threshold * Threshold * Len(frames)

Did(i, effect) == \E k \in DOMAIN workers[i].effects : workers[i].effects[k] = effect

PasteRequested(i) == Did(i, "paste") \/ Did(i, "paste_failed")

RECURSIVE ClipboardAfter(_)
ClipboardAfter(i) ==
    IF i = 0 THEN OldClipboard
    ELSE IF Did(i, "clipboard") THEN workers[i].text
    ELSE ClipboardAfter(i - 1)

HistoryLinesAfter(i) == Cardinality({j \in 1..i : Did(j, "history")})

EndsIn(line, text) ==
    /\ Len(line) >= Len(text)
    /\ SubSeq(line, Len(line) - Len(text) + 1, Len(line)) = text

\* session i has left the clipboard and the history log as they were
NoDelivery(i) ==
    /\ workers[i].effects = << >>
    /\ workers[i].pc \notin {"pbcopy", "history", "paste"}
    /\ i = Len(workers) =>
          /\ clipboard = ClipboardAfter(i - 1)
          /\ Len(history_log) = HistoryLinesAfter(i - 1)

(* C7: when the captured audio is silence (no samples, or RMS below 200),    *)
(* the recognition engine is not invoked for the session, no delivery       *)
(* effect occurs, and the session ends with the controller in Idle.         *)
C7_SilenceSkipsRecognitionAndDelivery ==
    \A i \in DOMAIN workers :
        (workers[i].pc \notin {"check", "run"} /\ SilentAudio(workers[i].audio)) =>
            /\ ~workers[i].engine
            /\ NoDelivery(i)
            /\ SessionOver(i) => ControllerState = "Idle"

\* a session on a recording with samples below the threshold is over
C7_Witness ==
    \E i \in DOMAIN workers :
        /\ SessionOver(i)
        /\ workers[i].gate = "silence"
        /\ workers[i].audio # << >>
        /\ workers[i].returncode = 0

(* C8: the energy gate decides silence exactly when there are no samples or  *)
(* the sum of their squares is below 200 * 200 * n, and speech otherwise,   *)
(* at RMS exactly 200 too; an all-zero buffer is silence.                   *)
C8_EnergyGate ==
    \A i \in DOMAIN workers :
        workers[i].gate # "none" =>
            /\ workers[i].gate = "silence" <=> SilentAudio(workers[i].audio)
            /\ workers[i].gate = "speech" <=> ~SilentAudio(workers[i].audio)
            /\ (\A k \in DOMAIN workers[i].audio : workers[i].audio[k] = 0) =>
                  workers[i].gate = "silence"

\* the gate has let through a buffer of several samples of RMS exactly 200
C8_Witness ==
    \E i \in DOMAIN workers :
        /\ workers[i].gate = "speech"
        /\ Len(workers[i].audio) > 1
        /\ SumSq(Unpack(workers[i].audio)) =
             Threshold * Threshold * Len(workers[i].audio)

(* C9: when the recognition run exceeds its time budget or exits with a      *)
(* non-zero status, no delivery effect occurs, the temporary file is gone   *)
(* once the worker has cleaned up, and the session ends in Idle.            *)
C9_FailedRecognitionDeliversNothing ==
    \A i \in DOMAIN workers :
        (workers[i].raised = "TimeoutExpired" \/ workers[i].returncode > 0) =>
            /\ NoDelivery(i)
            /\ (/\ i = Len(workers)
                /\ workers[i].pc \in {"callAfter", "done"}
                /\ recording_proc = "None") => ~recording_file.exists
            /\ SessionOver(i) => ControllerState = "Idle"

\* a session whose recognition timed out inside the engine is over
C9_Witness ==
    \E i \in DOMAIN workers :
        /\ SessionOver(i)
        /\ workers[i].raised = "TimeoutExpired"
        /\ workers[i].engine

-----------------------------------------------------------------------------
\* the worker has attempted the delivery effect, whatever came of it
ClipboardAttempted(i) == Did(i, "clipboard") \/ Did(i, "clipboard_failed")
HistoryAttempted(i) == Did(i, "history") \/ Did(i, "history_failed")
PasteAttempted(i) == PasteRequested(i) \/ Did(i, "paste_oserror")

\* the worker has left the body of its try statement
PipelineLeft(i) == workers[i].pc \in {"unlink", "callAfter", "done"}

(* C11: the delivery effects are independently best-effort: when the         *)
(* clipboard write has failed, the history-log append and the paste request *)
(* are attempted all the same, and when the history-log append has failed,  *)
(* the paste request is attempted all the same.                             *)
C11_DeliveryEffectsIndependent ==
    \A i \in DOMAIN workers :
        PipelineLeft(i) =>
            /\ Did(i, "clipboard_failed") => HistoryAttempted(i) /\ PasteAttempted(i)
            /\ Did(i, "history_failed") => PasteAttempted(i)

\* the kind of delivery effect an entry of effects is about
EffectRank(effect) ==
    CASE effect \in {"clipboard", "clipboard_failed"} -> 1
      [] effect \in {"history", "history_failed"} -> 2
      [] OTHER -> 3

\* the paste request of session i has failed
PasteFailed(i) == Did(i, "paste_failed") \/ Did(i, "paste_oserror")

(* C12: within one session the delivery effects happen in the order          *)
(* clipboard write, history-log append, paste request; a failed paste       *)
(* request leaves the clipboard contents and the appended history line in   *)
(* place and is not treated as an error of the session.                     *)
C12_OrderedAndPasteFailureHarmless ==
    \A i \in DOMAIN workers :
        /\ \A j, k \in DOMAIN workers[i].effects :
              j < k => EffectRank(workers[i].effects[j]) <
                          EffectRank(workers[i].effects[k])
        /\ (PasteFailed(i) /\ i = Len(workers) /\ recording_proc = "None") =>
              /\ clipboard = workers[i].text
              /\ history_log # << >>
              /\ history_log[Len(history_log)] = HistoryLine(workers[i].text)
              /\ workers[i].raised = "none"

\* a step of on_toggle in which Popen raised: a notification, no capture process
FailedStart ==
    /\ OnToggle
    /\ ControllerState = "Idle"
    /\ rec' = rec
    /\ "Recording failed" \in notifications'

(* C13: a toggle in Idle that fails to start the capture process leaves the  *)
(* controller in Idle with no capture handle, starts no worker, leaves the  *)
(* indicator idle, and leaves everything a later toggle depends on as it    *)
(* was, so that the next toggle attempts a fresh start.                     *)
C13_FailedStartStaysIdle ==
    [][FailedStart =>
          /\ ControllerState' = "Idle"
          /\ recording_proc' = "None"
          /\ workers' = workers
          /\ title' = ICON_IDLE
          /\ toggle_title' = "Start Recording"
          /\ ~recording_file'.exists
          /\ UNCHANGED << is_recording, is_transcribing, recording_proc, rec,
                          workers, main_queue, app_running >>]_vars

\* Recording, started by a toggle that followed a failed start
C13_Witness ==
    /\ "Recording failed" \in notifications
    /\ workers = << >>
    /\ ControllerState = "Recording"
    /\ recording_proc = "Popen"

\* a capture handle: recording_proc is set and its process is not yet reaped
CaptureHandle == recording_proc # "None" /\ rec = "running"

(* C14: between the handlers of the UI context, a capture handle exists if    *)
(* and only if the controller is in Recording; recording_proc is set        *)
(* exactly when is_recording is, and no capture process runs otherwise.     *)
C14_HandleIffRecording ==
    /\ recording_proc # "None" <=> is_recording
    /\ rec = "running" => ControllerState = "Recording"
    /\ app_running => (CaptureHandle <=> ControllerState = "Recording")

\* Recording for the second time, with a handle and a file being written
C14_Witness ==
    /\ app_running
    /\ ControllerState = "Recording"
    /\ CaptureHandle
    /\ Len(workers) = 1
    /\ recording_file.exists

(* C15: a quit received while Recording sends the capture process the        *)
(* termination signal and waits for it to exit before the application       *)
(* exits, so that no capture process is alive once the application has      *)
(* quit; a quit received with no capture handle sends no signal.            *)
C15_QuitStopsCapture ==
    /\ [](~app_running => rec # "running")
    /\ [][(app_running /\ ~app_running') =>
            /\ recording_proc # "None" => rec' = "terminated"
            /\ recording_proc = "None" => rec' = rec]_vars

\* the application has quit while Recording and the capture process has exited
C15_Witness ==
    /\ ~app_running
    /\ ControllerState = "Recording"
    /\ rec = "terminated"
    /\ recording_file.exists

\* the workers that have not ended yet
Running == {i \in DOMAIN workers : workers[i].pc # "done"}

(* C16: at most one worker runs at any time; a worker is started only by     *)
(* the change from Recording to Transcribing, which starts exactly one      *)
(* fresh worker, and only when every earlier worker has ended.              *)
C16_OneWorkerAtATime ==
    /\ [](Cardinality(Running) <= 1)
    /\ [][/\ (ControllerState = "Recording" /\ ControllerState' = "Transcribing")
               => workers' = Append(workers, NewWorker)
          /\ workers' # workers /\ Len(workers') # Len(workers)
               => /\ ControllerState = "Recording"
                  /\ ControllerState' = "Transcribing"
                  /\ Running = {}]_vars

\* the second worker runs, the first one has ended
C16_Witness ==
    /\ Len(workers) = 2
    /\ workers[1].pc = "done"
    /\ workers[2].pc \in {"run", "pbcopy", "history", "paste"}

\* the state owned by the UI context
UIState == << is_recording, is_transcribing, recording_proc, title, toggle_title >>

\* a step of a worker thread: a worker's statement counter moves
WorkerMoved ==
    /\ Len(workers') = Len(workers)
    /\ \E i \in DOMAIN workers : workers'[i].pc # workers[i].pc

(* C17: no step of a worker changes the state flags, the icon or the menu    *)
(* label; the change from Transcribing to Idle is made only by the reset    *)
(* callback, run on the UI context after the worker has posted it and       *)
(* ended.                                                                   *)
C17_WorkerLeavesUIStateAlone ==
    [][/\ WorkerMoved => UNCHANGED UIState
       /\ (is_transcribing /\ ~is_transcribing') =>
             /\ ~WorkerMoved
             /\ main_queue > 0
             /\ main_queue' = main_queue - 1
             /\ Running = {}
             /\ title' = ICON_IDLE
             /\ toggle_title' = "Start Recording"]_vars

\* the worker has delivered, posted the reset and ended; the indicator still
\* shows Transcribing
C17_Witness ==
    /\ is_transcribing
    /\ title = ICON_TRANSCRIBING
    /\ toggle_title = "Transcribing..."
    /\ main_queue = 1
    /\ \E i \in DOMAIN workers :
          workers[i].pc = "done" /\ PasteRequested(i)

(* C18: stopping capture when no capture handle exists does nothing: it      *)
(* sends no signal, changes no state flag and starts no worker; and no      *)
(* step taken without a handle reaps a process, enters Transcribing or      *)
(* starts a worker.                                                         *)
C18_StopWithoutHandleNoOp ==
    [][/\ (StopCall /\ recording_proc = "None") => UNCHANGED vars
       /\ recording_proc = "None" =>
             /\ Len(workers') = Len(workers)
             /\ is_transcribing' => is_transcribing
             /\ rec' = "terminated" => rec = "terminated"]_vars

\* the handle has been stopped and cleared, the application still runs
C18_Witness ==
    /\ app_running
    /\ recording_proc = "None"
    /\ rec = "terminated"
    /\ ControllerState = "Idle"
    /\ Len(workers) < MaxSessions

\* worker i may still read or delete the file at RECORDING_PATH: its thread
\* has started and its cleanup has not run
UsesFile(i) == workers[i].pc \in {"check", "run", "pbcopy", "history", "paste", "unlink"}

\* worker i deletes the recording in this step
Cleanup(i) ==
    /\ i \in DOMAIN workers'
    /\ workers[i].pc = "unlink"
    /\ workers'[i].pc # "unlink"

\* a capture process is started in this step
CaptureStarts == rec # "running" /\ rec' = "running"

(* C19: uses of the recording path by different sessions never overlap.      *)
(* While a worker may still use the file no capture process runs, the file  *)
(* changes only by that worker's cleanup and no capture is started; a       *)
(* cleanup is done by the latest session's worker, with no later capture    *)
(* started and before the reset is scheduled; a capture is started only     *)
(* when every worker has ended and every scheduled reset has run.           *)
C19_SessionsNeverOverlapOnFile ==
    /\ [](\A i \in DOMAIN workers : UsesFile(i) =>
              /\ rec # "running"
              /\ ~is_recording
              /\ is_transcribing
              /\ main_queue = 0)
    /\ [][/\ (\E i \in DOMAIN workers : UsesFile(i)) =>
              /\ ~CaptureStarts
              /\ recording_file' # recording_file =>
                    /\ recording_file' = NoFile
                    /\ \E i \in DOMAIN workers : Cleanup(i)
          /\ \A i \in DOMAIN workers : Cleanup(i) =>
                /\ i = Len(workers)
                /\ rec # "running"
                /\ main_queue = 0 /\ main_queue' = 0
                /\ recording_file' = NoFile
          /\ CaptureStarts =>
                /\ ~is_transcribing
                /\ main_queue = 0
                /\ \A i \in DOMAIN workers : workers[i].pc = "done"]_vars

\* the second session's worker is about to clean up the second recording
C19_Witness ==
    /\ Len(workers) = 2
    /\ workers[1].pc = "done"
    /\ Did(1, "clipboard")
    /\ workers[2].pc = "unlink"
    /\ recording_file.exists

\* worker i ends in this step
Ends(i) ==
    /\ i \in DOMAIN workers'
    /\ workers[i].pc # "done"
    /\ workers'[i].pc = "done"

\* every worker started so far has ended
AllEnded == \A i \in DOMAIN workers : workers[i].pc = "done"

(* C20: the reset callback is scheduled once by each worker, as the worker   *)
(* ends, and runs only while the controller is Transcribing.  At most one   *)
(* reset is pending; one is pending exactly when the controller is          *)
(* Transcribing and its worker has ended; outside Transcribing none is      *)
(* pending and every worker has ended, so each worker's reset has run.  A   *)
(* reset runs from Transcribing to Idle, and the indicator of an active     *)
(* recording is replaced only by the transcribing indicator.                *)
C20_ResetOncePerWorker ==
    /\ [](/\ main_queue <= 1
          /\ main_queue = 1 =>
                ControllerState = "Transcribing" /\ rec # "running" /\ AllEnded
          /\ ControllerState # "Transcribing" => main_queue = 0 /\ AllEnded
          /\ ControllerState = "Transcribing" =>
                /\ Len(workers) > 0
                /\ main_queue = 1 <=> AllEnded)
    /\ [][/\ main_queue' > main_queue =>
                /\ main_queue = 0
                /\ Ends(Len(workers))
          /\ \A i \in DOMAIN workers : Ends(i) => main_queue' = main_queue + 1
          /\ main_queue' < main_queue =>
                /\ ControllerState = "Transcribing"
                /\ ControllerState' = "Idle"
                /\ title = ICON_TRANSCRIBING
                /\ title' = ICON_IDLE
          /\ (title = ICON_RECORDING /\ title' # ICON_RECORDING) =>
                title' = ICON_TRANSCRIBING]_vars

\* the second worker has ended and its reset is pending
C20_Witness ==
    /\ app_running
    /\ Len(workers) = 2
    /\ AllEnded
    /\ main_queue = 1
    /\ ControllerState = "Transcribing"

====
